---- MODULE Spec2Model ----
(***************************************************************************)
(* Wallet / payment-ledger core of SkillVerse (src/payment_system.py) and  *)
(* the order settlement flow that drives it (place_order, src/routes.py).  *)
(*                                                                         *)
(* Money is modelled exactly, in whole rupees; order prices are multiples  *)
(* of 10 so that price * (1 - 0.10) is a whole number.                     *)
(* Optional values (a dict key that may be absent, None) are sequences of  *)
(* length 0 or 1.                                                          *)
(***************************************************************************)
EXTENDS Integers, Sequences, FiniteSets, TLC

\* ------------------------------------------------------------------ bounds
\* Number of requests served one after the other in one behaviour.
MaxCalls == 2
\* Number of lines transactions.txt can hold in the behaviours that read it.
MaxLines == 3
\* Length of the descriptions an invoice is rendered for.
MaxDescription == 4

\* ------------------------------------------------------------ input domains
Users == {"u1", "u2"}
Procs == {1, 2}
\* The worker that serves every request when requests do not overlap.
MainProc == CHOOSE p \in Procs : \A q \in Procs : p <= q
Amounts == {-10, 0, 10}
InitialBalances == {0, 20}
\* Balances of the wallets that exist before the first request.
SeedBalances == {20}
Prices == {10, 20}
\* The seconds datetime.now() can show.
Seconds == {0, 1}
\* random.randint(100, 999): two of the 900 suffixes are enough to collide.
Suffixes == {100, 101}
\* platform_fee_percent = 0.10, as a percentage
PlatformFeePercent == 10

VARIABLES
    walletFile,   \* wallets.txt: user_id -> wallet record (the whole snapshot)
    ledger,       \* transactions.txt: sequence of transaction records
    orders,       \* Order table: sequence of order rows
    clock,        \* datetime.now(), in seconds
    proc,         \* per worker: the request it serves and its local variables
    budget,       \* per worker: number of requests it may still serve
    net,          \* history: per user, sum of the deltas of the successful calls
    opening,      \* history: per user, the balance given by create_wallet
    clean,        \* history: no storage failure has happened so far
    gateway,      \* transactions.txt exists; per worker, its PaymentGateway instance
    query,        \* the last read call answered, with what it read and returned
    invoice       \* the last invoice rendered: the description given and shown

vars == <<walletFile, ledger, orders, clock, proc, budget, net, opening, clean,
          gateway, query, invoice>>

\* ------------------------------------------------------------------ helpers
None == <<>>
Some(x) == <<x>>

EmptyWallets == [u \in {} |-> [balance |-> 0]]

\* float(wallets[user_id].get('balance', 0)) if user_id in wallets else 0
BalanceIn(wallets, user_id) ==
    IF user_id \in DOMAIN wallets THEN wallets[user_id].balance ELSE 0

\* wallets[user_id] = {... 'balance': b ...} on a dict (key added when absent)
WithBalance(wallets, user_id, b) ==
    [u \in (DOMAIN wallets) \cup {user_id} |->
        IF u = user_id THEN [balance |-> b] ELSE wallets[u]]

\* f"TXN{timestamp}{random_suffix}"
TxnId(timestamp, random_suffix) == <<timestamp, random_suffix>>

\* Faulty variant of SellerAmount, for sensitivity analysis: no fee is kept.
SellerAmountNoFee(total_price) == total_price

\* seller_amount = order.total_price * (1 - platform_fee_percent)
SellerAmount(total_price) == (total_price * (100 - PlatformFeePercent)) \div 100

\* The result a call hands to its caller: a returned record or a raised exception.
Result(kind, id, new_balance, required, available) ==
    [kind |-> kind, id |-> id, new_balance |-> new_balance,
     required |-> required, available |-> available]

NoResult == Result("none", None, None, None, None)
InvalidAmount == Result("invalid_amount", None, None, None, None)
IOFailure == Result("io_error", None, None, None, None)

\* A worker between requests. op is the request being served, fn the wallet
\* method it is executing, the remaining fields are their arguments and locals;
\* ret is what the last wallet method returned or raised, outcome how the last
\* place_order request ended. pre_wallets / pre_ledger / credit_called are
\* history: the files as the request found them, and whether place_order got
\* as far as calling credit_seller.
IdleProc ==
    [pc |-> "idle", op |-> "none", fn |-> "none",
     user_id |-> "u1", amount |-> 0, transaction_id |-> None,
     wallets |-> EmptyWallets, txn_result |-> None,
     buyer |-> "u1", seller |-> "u1", order_price |-> 0, order |-> 0,
     buyer_txn_id |-> None, seller_credit_success |-> FALSE,
     ret |-> NoResult, debit_ret |-> NoResult, outcome |-> "none",
     pre_wallets |-> EmptyWallets, pre_ledger |-> <<>>, credit_called |-> FALSE]

\* ------------------------------------------------ pure pieces of the methods
\* Faulty variant of ValidAmount, for sensitivity analysis: zero passes the amount check.
ValidAmountOrZero(amount) == amount >= 0

\* the guard `if amount <= 0: raise CustomException(...)`, negated
ValidAmount(amount) == amount > 0

\* Faulty variant of Insufficient, for sensitivity analysis: only an overdrawn wallet is refused.
InsufficientOnlyIfOverdrawn(current_balance, amount) == current_balance < 0

\* Faulty variant of Insufficient, for sensitivity analysis: a debit of the whole balance is refused.
InsufficientOrEqual(current_balance, amount) == current_balance <= amount

\* the guard `if current_balance < amount: raise InsufficientBalanceException`
Insufficient(current_balance, amount) == current_balance < amount

\* Faulty variant of PreCheckFails, for sensitivity analysis: only an empty
\* wallet is turned away.
PreCheckFailsOnlyIfEmpty(current_balance, order_price) == current_balance <= 0

\* place_order's pre-check `if current_balance < order_price:`
PreCheckFails(current_balance, order_price) == current_balance < order_price

\* Faulty variant of HasWallet, for sensitivity analysis: no wallet is ever found.
HasWalletNever(wallets, user_id) == FALSE

\* create_wallet's test `user_id not in wallets`, negated
HasWallet(wallets, user_id) == user_id \in DOMAIN wallets

\* WalletManager.get_balance
GetBalance(user_id) == BalanceIn(walletFile, user_id)

\* Faulty variant of Debited, for sensitivity analysis: the amount is added instead of subtracted.
DebitedWrongSign(wallets, user_id, amount) ==
    WithBalance(wallets, user_id, BalanceIn(wallets, user_id) + amount)

\* wallets[user_id]['balance'] = current_balance - float(amount)
Debited(wallets, user_id, amount) ==
    WithBalance(wallets, user_id, BalanceIn(wallets, user_id) - amount)

\* Faulty variant of Credited, for sensitivity analysis: the balance is overwritten by the amount.
CreditedOverwrites(wallets, user_id, amount) ==
    WithBalance(wallets, user_id, amount)

\* Faulty variant of Credited, for sensitivity analysis: the balance is left alone.
CreditedNothing(wallets, user_id, amount) == wallets

\* Faulty variant of Credited, for sensitivity analysis: the amount is added twice.
CreditedTwice(wallets, user_id, amount) ==
    WithBalance(wallets, user_id, BalanceIn(wallets, user_id) + 2 * amount)

\* wallets[user_id]['balance'] = float(wallets[user_id].get('balance', 0)) + float(amount)
\* (after creating a zero-balance wallet when the user has none)
Credited(wallets, user_id, amount) ==
    WithBalance(wallets, user_id, BalanceIn(wallets, user_id) + amount)

\* A ledger line. type and new_balance are absent on gateway payment records.
Txn(id, timestamp, user_id, amount, method, status, type, new_balance) ==
    [id |-> id, user_id |-> user_id, amount |-> amount, method |-> method,
     status |-> status, type |-> type, timestamp |-> timestamp,
     new_balance |-> new_balance]

\* random.random() < self.__success_rate, with __success_rate = 1.0
PaymentStatus == "success"

\* txn_result of deduct_money
DebitRecord(id, timestamp, user_id, amount, wallets) ==
    Txn(id, timestamp, user_id, amount, "wallet", "success", Some("debit"),
        Some(BalanceIn(wallets, user_id)))

\* txn_result of credit_seller: transaction_id or generate_transaction_id()
CreditRecord(transaction_id, fresh_id, timestamp, user_id, amount, wallets) ==
    Txn(IF transaction_id # None THEN transaction_id[1] ELSE fresh_id, timestamp,
        user_id, amount, "wallet", "success", Some("credit"),
        Some(BalanceIn(wallets, user_id)))

\* txn_data of process_payment
PaymentRecord(id, timestamp, user_id, amount) ==
    Txn(id, timestamp, user_id, amount, "card", PaymentStatus, None, None)

Returned(txn) == Result(txn.status, Some(txn.id), txn.new_balance, None, None)

\* Faulty variant of InsufficientBalance, for sensitivity analysis: the two values are swapped.
InsufficientBalanceSwapped(required, available) ==
    Result("insufficient_balance", None, None, Some(available), Some(required))

\* InsufficientBalanceException(required=amount, available=current_balance)
InsufficientBalance(required, available) ==
    Result("insufficient_balance", None, None, Some(required), Some(available))

\* transactions.txt exists and every worker holds a constructed PaymentGateway.
ReadyGateway == [exists |-> TRUE, pc |-> [p \in Procs |-> "ready"]]

\* An answered read call: the function and its arguments, the ledger lines it
\* read, and what it returned (a record, a list, a balance) or raised.
Query(fn, txn_id, user_id, lines, kind, txn, list, balance) ==
    [fn |-> fn, txn_id |-> txn_id, user_id |-> user_id, lines |-> lines,
     kind |-> kind, txn |-> txn, list |-> list, balance |-> balance]

NoQuery == Query("none", None, None, <<>>, "none", None, <<>>, None)

\* -------------------------------------------------- pure pieces of the reads
\* A ledger line json.loads cannot parse: a write that stopped part-way, a
\* line damaged on disk.
Malformed == [malformed |-> TRUE]

\* json.loads(line): the record, or nothing when JSONDecodeError is raised
Loads(line) == IF DOMAIN line = DOMAIN Malformed THEN None ELSE Some(line)

\* The ids the stored records carry and the lookups ask for.
LedgerIds == {TxnId(t, 100) : t \in Seconds}

\* Records the wallet methods hand to save_transaction: a debit of u1 in each
\* second, the credit of u2 that reuses the id of the first debit, and a
\* recharge of u1 whose generated id repeats that id.
SavedRecords ==
    {DebitRecord(TxnId(t, 100), t, "u1", 10, WithBalance(EmptyWallets, "u1", 10))
        : t \in Seconds}
    \cup {CreditRecord(Some(TxnId(0, 100)), TxnId(0, 100), 0, "u2", 9,
                       WithBalance(EmptyWallets, "u2", 9)),
          PaymentRecord(TxnId(0, 100), 0, "u1", 10)}

\* What get_transaction does: return a record, raise
\* TransactionNotFoundException, or fall off its end (return None).
Outcome(kind, txn) == [kind |-> kind, txn |-> txn]

\* Faulty variant of FilteredOut, for sensitivity analysis: user_id is ignored.
FilteredOutNever(txn, user_id) == FALSE

\* `if user_id and str(txn.get('user_id')) != str(user_id): continue`
FilteredOut(txn, user_id) == user_id # None /\ txn.user_id # user_id[1]

\* get_transaction's loop from line i on. json.loads sits inside the try
\* whose `except json.JSONDecodeError: pass` is outside the loop, so a line
\* that does not parse ends the scan and the method returns None.
RECURSIVE ScanFrom(_, _, _, _)
ScanFrom(lines, i, txn_id, user_id) ==
    IF i > Len(lines) THEN Outcome("not_found", None)
    ELSE IF Loads(lines[i]) = None THEN Outcome("none", None)
    ELSE IF lines[i].id = txn_id /\ ~FilteredOut(lines[i], user_id)
         THEN Outcome("found", Loads(lines[i]))
    ELSE ScanFrom(lines, i + 1, txn_id, user_id)

\* The lines of the file that parse, in file order (the loops of
\* get_all_transactions / get_user_transactions skip the others).
RECURSIVE Parsed(_)
Parsed(lines) ==
    IF lines = <<>> THEN <<>>
    ELSE IF Loads(Head(lines)) = None THEN Parsed(Tail(lines))
    ELSE <<Loads(Head(lines))[1]>> \o Parsed(Tail(lines))

\* `if str(txn.get('user_id')) == str(user_id): transactions.append(txn)`
RECURSIVE OfUser(_, _)
OfUser(transactions, user_id) ==
    IF transactions = <<>> THEN <<>>
    ELSE IF Head(transactions).user_id = user_id
         THEN <<Head(transactions)>> \o OfUser(Tail(transactions), user_id)
    ELSE OfUser(Tail(transactions), user_id)

\* Faulty variant of SortedNewestFirst, for sensitivity analysis: file order is kept.
InFileOrder(transactions) == transactions

\* transactions.sort(key=timestamp, reverse=True): a stable sort, so records
\* with equal timestamps keep their file order. Insertion from the left.
RECURSIVE SortedNewestFirst(_)
SortedNewestFirst(transactions) ==
    IF transactions = <<>> THEN <<>>
    ELSE LET n == Len(transactions)
             x == transactions[n]
             sorted == SortedNewestFirst(SubSeq(transactions, 1, n - 1))
             k == Cardinality({i \in DOMAIN sorted :
                                  sorted[i].timestamp >= x.timestamp})
         IN SubSeq(sorted, 1, k) \o <<x>> \o SubSeq(sorted, k + 1, Len(sorted))

\* The spellings of the annotation tag the pattern matches with re.IGNORECASE.
Tags == {"[MANUAL FIX]", "[manual fix]"}

\* A description is a sequence of characters: a letter, a blank (what \s
\* matches), or a tag taken as one unit.
Characters == {"a", " "} \cup Tags

Descriptions == UNION {[1..n -> Characters] : n \in 0..MaxDescription}

\* The first position from i on that holds no blank (Len + 1 when none does).
RECURSIVE SkipBlanks(_, _)
SkipBlanks(description, i) ==
    IF i <= Len(description) /\ description[i] = " "
    THEN SkipBlanks(description, i + 1) ELSE i

\* re.sub(r'\s*\[MANUAL FIX\]\s*', '', description, flags=re.IGNORECASE) from
\* position i on: a tag is dropped together with the blanks on both its sides,
\* every other character is kept.
RECURSIVE SubFrom(_, _)
SubFrom(description, i) ==
    IF i > Len(description) THEN <<>>
    ELSE LET j == SkipBlanks(description, i)
         IN IF j <= Len(description) /\ description[j] \in Tags
            THEN SubFrom(description, SkipBlanks(description, j + 1))
            ELSE <<description[i]>> \o SubFrom(description, i + 1)

\* str.strip(): leading and trailing blanks are dropped
RECURSIVE Strip(_)
Strip(description) ==
    IF description = <<>> THEN <<>>
    ELSE IF Head(description) = " " THEN Strip(Tail(description))
    ELSE IF description[Len(description)] = " "
         THEN Strip(SubSeq(description, 1, Len(description) - 1))
    ELSE description

\* generate_invoice_html: the description as the invoice shows it
CleanDescription(description) == Strip(SubFrom(description, 1))

NoInvoice == [description |-> <<>>, rendered |-> <<>>]

\* Faulty variant of WalletOrDefault, for sensitivity analysis: the default record is
\* not empty.
WalletOrDefaultSeeded(wallets, user_id) ==
    IF user_id \in DOMAIN wallets THEN wallets[user_id] ELSE [balance |-> 20]

\* get_wallet: the stored record, or a fresh zero-balance record
WalletOrDefault(wallets, user_id) ==
    IF user_id \in DOMAIN wallets THEN wallets[user_id] ELSE [balance |-> 0]

\* A rewrite of wallets.txt that fails does so in open(..., 'w'), before the
\* file is touched.
FailedWrite == {walletFile}

\* ------------------------------------------------------- request bookkeeping
Begin(op, fn, pc, user_id, amount, transaction_id) ==
    [IdleProc EXCEPT !.pc = pc, !.op = op, !.fn = fn, !.user_id = user_id,
                     !.amount = amount, !.transaction_id = transaction_id,
                     !.pre_wallets = walletFile, !.pre_ledger = ledger]

End(rec, ret) ==
    [rec EXCEPT !.pc = "idle", !.ret = ret, !.wallets = EmptyWallets,
                !.txn_result = None]

\* Faulty variant of AfterDebit, for sensitivity analysis: the seller is credited whatever deduct_money did.
AfterDebitAlwaysCredits(rec, ret) ==
    [rec EXCEPT !.pc = "cs_read", !.fn = "credit_seller",
                !.user_id = rec.seller,
                !.amount = SellerAmount(orders[rec.order].total_price),
                !.transaction_id = ret.id, !.buyer_txn_id = ret.id,
                !.ret = ret, !.debit_ret = ret, !.credit_called = TRUE,
                !.wallets = EmptyWallets, !.txn_result = None]

\* place_order after deduct_money returned or raised (routes.py 861-885):
\* on success remember the id and go on to credit the seller, on any exception
\* cancel the order and return.
AfterDebit(rec, ret) ==
    IF ret.kind = "success"
    THEN [rec EXCEPT !.pc = "cs_read", !.fn = "credit_seller",
                     !.user_id = rec.seller,
                     !.amount = SellerAmount(orders[rec.order].total_price),
                     !.transaction_id = ret.id, !.buyer_txn_id = ret.id,
                     !.ret = ret, !.debit_ret = ret, !.credit_called = TRUE,
                     !.wallets = EmptyWallets, !.txn_result = None]
    ELSE [End(rec, ret) EXCEPT !.debit_ret = ret, !.outcome = "cancelled"]

OrdersAfterDebit(rec, ret) ==
    IF ret.kind = "success" THEN orders
    ELSE [orders EXCEPT ![rec.order].status = "cancelled"]

\* place_order after credit_seller returned or raised (routes.py 898-928): the
\* exception is logged, the order stays, the buyer is told the order is placed.
AfterCredit(rec, ret) ==
    [End(rec, ret) EXCEPT !.seller_credit_success = (ret.kind = "success"),
                          !.outcome = "placed"]

\* Where a wallet method's return or exception takes the worker.
Return(rec, ret) ==
    IF rec.op # "place_order" THEN End(rec, ret)
    ELSE IF rec.fn = "deduct_money" THEN AfterDebit(rec, ret)
    ELSE AfterCredit(rec, ret)

OrdersOnReturn(rec, ret) ==
    IF rec.op = "place_order" /\ rec.fn = "deduct_money"
    THEN OrdersAfterDebit(rec, ret) ELSE orders

\* A successful wallet method applied delta to user_id.
Applied(user_id, delta) == [net EXCEPT ![user_id] = @ + delta]

\* A wallet method raises: nothing but the worker (and its order) changes.
Finish(p, ret) ==
    /\ proc' = [proc EXCEPT ![p] = Return(proc[p], ret)]
    /\ orders' = OrdersOnReturn(proc[p], ret)

\* ------------------------------------------------------------------ actions
\* datetime.now(): the time a step reads is not before any time read earlier.
Now == {t \in Seconds : t >= clock}

\* A request calls a wallet method fn(user_id, amount): the amount check comes
\* first and raises before any file is opened.
Call(p, fn, first_pc, user_id, amount) ==
    /\ proc[p].pc = "idle"
    /\ budget[p] > 0
    /\ budget' = [budget EXCEPT ![p] = @ - 1]
    /\ proc' = [proc EXCEPT ![p] =
          IF ValidAmount(amount)
          THEN Begin(fn, fn, first_pc, user_id, amount, None)
          ELSE End(Begin(fn, fn, "idle", user_id, amount, None), InvalidAmount)]
    /\ UNCHANGED <<walletFile, ledger, orders, clock, net, opening, clean>>

\* WalletManager.add_money, up to the amount check
AddMoney(p) ==
    \E user_id \in Users, amount \in Amounts :
        Call(p, "add_money", "am_pay", user_id, amount)

\* PaymentGateway.process_payment, called by add_money: build the record and
\* append it to the ledger (save_transaction).
ProcessPayment(p) ==
    /\ proc[p].pc = "am_pay"
    /\ \E now \in Now, random_suffix \in Suffixes :
        LET txn_data == PaymentRecord(TxnId(now, random_suffix), now,
                                      proc[p].user_id, proc[p].amount)
        IN /\ clock' = now
           /\ \/ /\ ledger' = Append(ledger, txn_data)
                 /\ proc' = [proc EXCEPT ![p].txn_result = Some(txn_data),
                                         ![p].pc = IF txn_data.status = "success"
                                                   THEN "am_read" ELSE "idle",
                                         ![p].ret = IF txn_data.status = "success"
                                                    THEN @ ELSE Returned(txn_data)]
                 /\ UNCHANGED <<orders, clean>>
              \/ /\ Finish(p, IOFailure)      \* IOError in save_transaction
                 /\ clean' = FALSE
                 /\ UNCHANGED ledger
    /\ UNCHANGED <<walletFile, budget, net, opening>>

\* add_money: wallets = self.__read_all_wallets()
AddMoneyRead(p) ==
    /\ proc[p].pc = "am_read"
    /\ \/ /\ proc' = [proc EXCEPT ![p].wallets = walletFile, ![p].pc = "am_write"]
          /\ UNCHANGED <<orders, clean>>
       \/ /\ Finish(p, IOFailure)
          /\ clean' = FALSE
    /\ UNCHANGED <<walletFile, ledger, clock, budget, net, opening>>

\* add_money: update the balance, rewrite the snapshot, attach new_balance
AddMoneyWrite(p) ==
    /\ proc[p].pc = "am_write"
    /\ LET wallets == Credited(proc[p].wallets, proc[p].user_id, proc[p].amount)
           txn_result == [proc[p].txn_result[1] EXCEPT
                            !.new_balance = Some(BalanceIn(wallets, proc[p].user_id))]
       IN \/ /\ walletFile' = wallets
             /\ proc' = [proc EXCEPT ![p] = Return(proc[p], Returned(txn_result))]
             /\ net' = Applied(proc[p].user_id, proc[p].amount)
             /\ UNCHANGED <<orders, clean>>
          \/ /\ walletFile' \in FailedWrite
             /\ Finish(p, IOFailure)
             /\ clean' = FALSE
             /\ UNCHANGED net
    /\ UNCHANGED <<ledger, clock, budget, opening>>

\* WalletManager.deduct_money, up to the amount check
DeductMoney(p) ==
    \E user_id \in Users, amount \in Amounts :
        Call(p, "deduct_money", "dm_read", user_id, amount)

\* deduct_money: read the snapshot and check the balance
DeductRead(p) ==
    /\ proc[p].pc = "dm_read"
    /\ LET current_balance == BalanceIn(walletFile, proc[p].user_id)
       IN \/ /\ ~Insufficient(current_balance, proc[p].amount)
             /\ proc' = [proc EXCEPT ![p].wallets = walletFile, ![p].pc = "dm_write"]
             /\ UNCHANGED <<orders, clean>>
          \/ /\ Insufficient(current_balance, proc[p].amount)
             /\ Finish(p, InsufficientBalance(proc[p].amount, current_balance))
             /\ UNCHANGED clean
          \/ /\ Finish(p, IOFailure)
             /\ clean' = FALSE
    /\ UNCHANGED <<walletFile, ledger, clock, budget, net, opening>>

\* deduct_money: lower the balance and rewrite the snapshot
DeductWrite(p) ==
    /\ proc[p].pc = "dm_write"
    /\ LET wallets == Debited(proc[p].wallets, proc[p].user_id, proc[p].amount)
       IN \/ /\ walletFile' = wallets
             /\ proc' = [proc EXCEPT ![p].wallets = wallets, ![p].pc = "dm_save"]
             /\ UNCHANGED <<orders, clean>>
          \/ /\ walletFile' \in FailedWrite
             /\ Finish(p, IOFailure)
             /\ clean' = FALSE
    /\ UNCHANGED <<ledger, clock, budget, net, opening>>

\* deduct_money: build the debit record and append it to the ledger
DeductSave(p) ==
    /\ proc[p].pc = "dm_save"
    /\ \E now \in Now, random_suffix \in Suffixes :
        LET txn_result == DebitRecord(TxnId(now, random_suffix), now, proc[p].user_id,
                                      proc[p].amount, proc[p].wallets)
        IN /\ clock' = now
           /\ \/ /\ ledger' = Append(ledger, txn_result)
                 /\ Finish(p, Returned(txn_result))
                 /\ net' = Applied(proc[p].user_id, 0 - proc[p].amount)
                 /\ UNCHANGED clean
              \/ /\ Finish(p, IOFailure)      \* IOError in save_transaction
                 /\ clean' = FALSE
                 /\ UNCHANGED <<ledger, net>>
    /\ UNCHANGED <<walletFile, budget, opening>>

\* WalletManager.credit_seller, up to the amount check
CreditSeller(p) ==
    \E user_id \in Users, amount \in Amounts :
        Call(p, "credit_seller", "cs_read", user_id, amount)

\* credit_seller: wallets = self.__read_all_wallets()
CreditRead(p) ==
    /\ proc[p].pc = "cs_read"
    /\ \/ /\ proc' = [proc EXCEPT ![p].wallets = walletFile, ![p].pc = "cs_write"]
          /\ UNCHANGED <<orders, clean>>
       \/ /\ Finish(p, IOFailure)
          /\ clean' = FALSE
    /\ UNCHANGED <<walletFile, ledger, clock, budget, net, opening>>

\* credit_seller: raise the balance (creating the wallet) and rewrite the snapshot
CreditWrite(p) ==
    /\ proc[p].pc = "cs_write"
    /\ LET wallets == Credited(proc[p].wallets, proc[p].user_id, proc[p].amount)
       IN \/ /\ walletFile' = wallets
             /\ proc' = [proc EXCEPT ![p].wallets = wallets, ![p].pc = "cs_save"]
             /\ UNCHANGED <<orders, clean>>
          \/ /\ walletFile' \in FailedWrite
             /\ Finish(p, IOFailure)
             /\ clean' = FALSE
    /\ UNCHANGED <<ledger, clock, budget, net, opening>>

\* credit_seller: build the credit record and append it to the ledger
CreditSave(p) ==
    /\ proc[p].pc = "cs_save"
    /\ \E now \in Now, random_suffix \in Suffixes :
        LET txn_result == CreditRecord(proc[p].transaction_id,
                                       TxnId(now, random_suffix), now, proc[p].user_id,
                                       proc[p].amount, proc[p].wallets)
        IN /\ clock' = now
           /\ \/ /\ ledger' = Append(ledger, txn_result)
                 /\ Finish(p, Returned(txn_result))
                 /\ net' = Applied(proc[p].user_id, proc[p].amount)
                 /\ UNCHANGED clean
              \/ /\ Finish(p, IOFailure)      \* IOError in save_transaction
                 /\ clean' = FALSE
                 /\ UNCHANGED <<ledger, net>>
    /\ UNCHANGED <<walletFile, budget, opening>>

\* WalletManager.create_wallet
CreateWallet(p) ==
    /\ proc[p].pc = "idle"
    /\ budget[p] > 0
    /\ budget' = [budget EXCEPT ![p] = @ - 1]
    /\ \E user_id \in Users, initial_balance \in InitialBalances :
          proc' = [proc EXCEPT ![p] =
              Begin("create_wallet", "create_wallet", "cw_read", user_id,
                    initial_balance, None)]
    /\ UNCHANGED <<walletFile, ledger, orders, clock, net, opening, clean>>

\* create_wallet: read the snapshot; an existing wallet is returned as it is
CreateRead(p) ==
    /\ proc[p].pc = "cw_read"
    /\ \/ /\ ~HasWallet(walletFile, proc[p].user_id)
          /\ proc' = [proc EXCEPT ![p].pc = "cw_write",
                ![p].wallets = WithBalance(walletFile, proc[p].user_id, proc[p].amount)]
          /\ UNCHANGED <<orders, clean>>
       \/ /\ HasWallet(walletFile, proc[p].user_id)
          /\ Finish(p, Result("success", None,
                       Some(walletFile[proc[p].user_id].balance), None, None))
          /\ UNCHANGED clean
       \/ /\ Finish(p, IOFailure)
          /\ clean' = FALSE
    /\ UNCHANGED <<walletFile, ledger, clock, budget, net, opening>>

\* create_wallet: self.__write_all_wallets(wallets) with the new wallet added
CreateWrite(p) ==
    /\ proc[p].pc = "cw_write"
    /\ \/ /\ walletFile' = proc[p].wallets
          /\ Finish(p, Result("success", None, Some(proc[p].amount), None, None))
          /\ opening' = [opening EXCEPT ![proc[p].user_id] = proc[p].amount]
          /\ UNCHANGED clean
       \/ /\ walletFile' \in FailedWrite
          /\ Finish(p, IOFailure)
          /\ clean' = FALSE
          /\ UNCHANGED opening
    /\ UNCHANGED <<ledger, clock, budget, net>>

\* place_order: the request arrives; the buyer is the logged-in user, the seller
\* the owner of the service, order_price the tier price of the service.
PlaceOrder(p) ==
    /\ proc[p].pc = "idle"
    /\ budget[p] > 0
    /\ budget' = [budget EXCEPT ![p] = @ - 1]
    /\ \E buyer \in Users, seller \in Users, order_price \in Prices :
          /\ buyer # seller
          /\ proc' = [proc EXCEPT ![p] =
                [Begin("place_order", "get_balance", "po_check", buyer, order_price, None)
                    EXCEPT !.buyer = buyer, !.seller = seller,
                           !.order_price = order_price]]
    /\ UNCHANGED <<walletFile, ledger, orders, clock, net, opening, clean>>

\* place_order: current_balance = wallet_mgr.get_balance(current_user.id) and
\* the pre-check against order_price
PlaceOrderCheck(p) ==
    /\ proc[p].pc = "po_check"
    /\ LET current_balance == GetBalance(proc[p].buyer)
       IN \/ /\ ~PreCheckFails(current_balance, proc[p].order_price)
             /\ proc' = [proc EXCEPT ![p].pc = "po_create"]
             /\ UNCHANGED clean
          \/ /\ PreCheckFails(current_balance, proc[p].order_price)
             /\ proc' = [proc EXCEPT ![p] =
                   [End(proc[p], NoResult) EXCEPT !.outcome = "rejected"]]
             /\ UNCHANGED clean
          \/ /\ proc' = [proc EXCEPT ![p] =      \* the read raises: error page
                   [End(proc[p], IOFailure) EXCEPT !.outcome = "error"]]
             /\ clean' = FALSE
    /\ UNCHANGED <<walletFile, ledger, orders, clock, budget, net, opening>>

\* order_manager.create_order: a pending order for the service at its tier
\* price, or None
CreateOrder(p) ==
    /\ proc[p].pc = "po_create"
    /\ \/ LET order == [buyer_id |-> proc[p].buyer, seller_id |-> proc[p].seller,
                         total_price |-> proc[p].order_price, status |-> "pending"]
          IN /\ orders' = Append(orders, order)
             \* deduct_money(user_id=current_user.id, amount=order.total_price)
             /\ proc' = [proc EXCEPT ![p].order = Len(orders) + 1,
                                     ![p].fn = "deduct_money", ![p].pc = "dm_read",
                                     ![p].user_id = proc[p].buyer,
                                     ![p].amount = order.total_price]
       \/ /\ proc' = [proc EXCEPT ![p] =
                [End(proc[p], NoResult) EXCEPT !.outcome = "no_order"]]
          /\ UNCHANGED orders
    /\ UNCHANGED <<walletFile, ledger, clock, budget, net, opening, clean>>

\* PaymentGateway(): __init__ up to the os.path.exists test of
\* __ensure_file_exists
NewGateway(p) ==
    /\ gateway.pc[p] = "none"
    /\ gateway' = [gateway EXCEPT
                      !.pc[p] = IF gateway.exists THEN "ready" ELSE "create"]
    /\ UNCHANGED <<walletFile, ledger, orders, clock, proc, budget, net, opening,
                   clean, query, invoice>>

\* __ensure_file_exists after the test found no file: open(..., 'w') creates
\* the file, or empties the one another worker has made since the test
EnsureFileExists(p) ==
    /\ gateway.pc[p] = "create"
    /\ \/ /\ ledger' = <<>>
          /\ gateway' = [gateway EXCEPT !.exists = TRUE, !.pc[p] = "ready"]
          /\ UNCHANGED clean
       \/ /\ gateway' = [gateway EXCEPT !.pc[p] = "failed"]   \* IOError
          /\ clean' = FALSE
          /\ UNCHANGED ledger
    /\ UNCHANGED <<walletFile, orders, clock, proc, budget, net, opening, query,
                   invoice>>

\* PaymentGateway.save_transaction: open(..., 'a') and write one line; a write
\* that stops part-way leaves a line that does not parse
SaveTransaction(p) ==
    /\ gateway.pc[p] = "ready"
    /\ Len(ledger) < MaxLines
    /\ \E txn_data \in SavedRecords :
          \/ ledger' = Append(ledger, txn_data) /\ UNCHANGED clean
          \/ ledger' = Append(ledger, Malformed) /\ clean' = FALSE
    /\ gateway' = [gateway EXCEPT !.exists = TRUE]
    /\ UNCHANGED <<walletFile, orders, clock, proc, budget, net, opening, query,
                   invoice>>

\* What the read calls leave alone: everything but the answer.
ReadOnly ==
    UNCHANGED <<walletFile, ledger, orders, clock, proc, budget, net, opening,
                clean, gateway, invoice>>

\* PaymentGateway.get_transaction(txn_id, user_id=None)
GetTransaction(p) ==
    /\ gateway.pc[p] = "ready"
    /\ \E txn_id \in LedgerIds, user_id \in {None} \cup {Some(u) : u \in Users} :
          \/ /\ gateway.exists
             /\ LET r == ScanFrom(ledger, 1, txn_id, user_id)
                IN query' = Query("get_transaction", Some(txn_id), user_id, ledger,
                                  r.kind, r.txn, <<>>, None)
          \/ query' = Query("get_transaction", Some(txn_id), user_id, ledger,
                            "io_error", None, <<>>, None)
    /\ ReadOnly

\* What the list methods return for the lines they read.
Listed(fn, user_id, transactions) ==
    Query(fn, None, user_id, ledger, "list", None,
          IF gateway.exists THEN SortedNewestFirst(transactions) ELSE <<>>, None)

\* PaymentGateway.get_user_transactions(user_id)
GetUserTransactions(p) ==
    /\ gateway.pc[p] = "ready"
    /\ \E user_id \in Users :
          \/ query' = Listed("get_user_transactions", Some(user_id),
                             OfUser(Parsed(ledger), user_id))
          \/ query' = Query("get_user_transactions", None, Some(user_id), ledger,
                            "io_error", None, <<>>, None)
    /\ ReadOnly

\* PaymentGateway.get_all_transactions()
GetAllTransactions(p) ==
    /\ gateway.pc[p] = "ready"
    /\ \/ query' = Listed("get_all_transactions", None, Parsed(ledger))
       \/ query' = Query("get_all_transactions", None, None, ledger,
                         "io_error", None, <<>>, None)
    /\ ReadOnly

\* WalletManager.get_transaction_history(user_id):
\* return self.payment_gateway.get_user_transactions(user_id)
GetTransactionHistory(p) ==
    /\ gateway.pc[p] = "ready"
    /\ \E user_id \in Users :
          \/ query' = Listed("get_transaction_history", Some(user_id),
                             OfUser(Parsed(ledger), user_id))
          \/ query' = Query("get_transaction_history", None, Some(user_id), ledger,
                            "io_error", None, <<>>, None)
    /\ ReadOnly

\* WalletManager.get_balance(user_id), as a request of its own
GetBalanceCall(p) ==
    /\ gateway.pc[p] = "ready"
    /\ \E user_id \in Users :
          \/ query' = Query("get_balance", None, Some(user_id), <<>>, "balance",
                            None, <<>>, Some(GetBalance(user_id)))
          \/ query' = Query("get_balance", None, Some(user_id), <<>>, "io_error",
                            None, <<>>, None)
    /\ ReadOnly

\* WalletManager.get_wallet(user_id)
GetWallet(p) ==
    /\ gateway.pc[p] = "ready"
    /\ \E user_id \in Users :
          \/ query' = Query("get_wallet", None, Some(user_id), <<>>, "wallet",
                            None, <<>>,
                            Some(WalletOrDefault(walletFile, user_id).balance))
          \/ query' = Query("get_wallet", None, Some(user_id), <<>>, "io_error",
                            None, <<>>, None)
    /\ ReadOnly

\* get_invoice(txn_id) of routes.py for the logged-in user current_user: the
\* record is looked up by id alone, refused unless it belongs to the user, and
\* rendered by InvoiceGenerator.generate_invoice_html. The description of the
\* record found is any description.
GetInvoice(p) ==
    /\ gateway.pc[p] = "ready"
    /\ budget[p] > 0
    /\ budget' = [budget EXCEPT ![p] = @ - 1]
    /\ \E txn_id \in LedgerIds, current_user \in Users :
          LET transaction == ScanFrom(ledger, 1, txn_id, None)
              Answer(kind, txn) ==
                  Query("get_invoice", Some(txn_id), Some(current_user), ledger,
                        kind, txn, <<>>, None)
          IN \/ /\ gateway.exists
                /\ transaction.kind = "found"
                /\ transaction.txn[1].user_id # current_user
                /\ query' = Answer("unauthorized", None)            \* 403
                /\ UNCHANGED invoice
             \/ /\ gateway.exists
                /\ transaction.kind = "found"
                /\ transaction.txn[1].user_id = current_user
                /\ query' = Answer("invoice", transaction.txn)
                /\ \E description \in Descriptions :
                      invoice' = [description |-> description,
                                  rendered |-> CleanDescription(description)]
             \/ /\ gateway.exists
                /\ transaction.kind = "not_found"
                /\ query' = Answer("not_found", None)               \* 404
                /\ UNCHANGED invoice
             \/ /\ gateway.exists
                /\ transaction.kind = "none"
                \* transaction is None: transaction.get raises AttributeError,
                \* caught by `except Exception`
                /\ query' = Answer("attribute_error", None)         \* 500
                /\ UNCHANGED invoice
             \/ /\ query' = Answer("io_error", None)                \* 500
                /\ UNCHANGED invoice
    /\ UNCHANGED <<walletFile, ledger, orders, clock, proc, net, opening, clean,
                   gateway>>

\* One read call of worker p.
ReadStep(p) ==
    \/ GetTransaction(p) \/ GetUserTransactions(p) \/ GetAllTransactions(p)
    \/ GetTransactionHistory(p) \/ GetBalanceCall(p) \/ GetWallet(p)

\* One step of worker p in a wallet method.
WalletStep(p) ==
    /\ \/ AddMoney(p) \/ ProcessPayment(p) \/ AddMoneyRead(p) \/ AddMoneyWrite(p)
       \/ DeductMoney(p) \/ DeductRead(p) \/ DeductWrite(p) \/ DeductSave(p)
       \/ CreditSeller(p) \/ CreditRead(p) \/ CreditWrite(p) \/ CreditSave(p)
       \/ CreateWallet(p) \/ CreateRead(p) \/ CreateWrite(p)
    /\ UNCHANGED <<gateway, query, invoice>>

\* One step of worker p in place_order outside the wallet methods.
OrderStep(p) ==
    /\ PlaceOrder(p) \/ PlaceOrderCheck(p) \/ CreateOrder(p)
    /\ UNCHANGED <<gateway, query, invoice>>

\* The stores as earlier runs left them: some users already hold a wallet that
\* create_wallet gave an initial balance; the ledger is still empty.
Stores ==
    /\ walletFile \in UNION {[S -> [balance : SeedBalances]] : S \in SUBSET Users}
    /\ ledger = <<>>
    /\ orders = <<>>
    /\ clock = 0
    /\ proc = [p \in Procs |-> IdleProc]
    /\ net = [u \in Users |-> 0]
    /\ opening = [u \in Users |-> BalanceIn(walletFile, u)]
    /\ clean = TRUE
    /\ query = NoQuery
    /\ invoice = NoInvoice

\* The stores, transactions.txt in place, every worker with its gateway built.
Files == Stores /\ gateway = ReadyGateway

\* Requests served one at a time, by one worker.
Init == Files /\ budget = [p \in Procs |-> IF p = MainProc THEN MaxCalls ELSE 0]

Next == \E p \in Procs : WalletStep(p) \/ OrderStep(p)

Spec == Init /\ [][Next]_vars

\* One step of worker p in add_money.
RechargeStep(p) ==
    /\ AddMoney(p) \/ ProcessPayment(p) \/ AddMoneyRead(p) \/ AddMoneyWrite(p)
    /\ UNCHANGED <<gateway, query, invoice>>

\* One step of worker p in a wallet method place_order called.
PaymentStep(p) ==
    /\ \/ DeductRead(p) \/ DeductWrite(p) \/ DeductSave(p)
       \/ CreditRead(p) \/ CreditWrite(p) \/ CreditSave(p)
    /\ UNCHANGED <<gateway, query, invoice>>

\* Recharges and orders served one at a time, by one worker.
NextSettle == \E p \in Procs : RechargeStep(p) \/ PaymentStep(p) \/ OrderStep(p)

SpecSettle == Init /\ [][NextSettle]_vars

\* Orders served one at a time, by one worker. A request handler that can take
\* a step takes it: the handlers neither wait nor loop.
NextOrder == \E p \in Procs : PaymentStep(p) \/ OrderStep(p)

SpecOrder == Init /\ [][NextOrder]_vars /\ WF_vars(NextOrder)

\* Two overlapping wallet requests, one per worker, interleaved at every file
\* access.
InitConcurrent == Files /\ budget = [p \in Procs |-> 1]

NextConcurrent == \E p \in Procs : WalletStep(p)

SpecConcurrent == InitConcurrent /\ [][NextConcurrent]_vars

\* Two overlapping requests of any kind, place_order included.
NextRace == \E p \in Procs : WalletStep(p) \/ OrderStep(p)

SpecRace == InitConcurrent /\ [][NextRace]_vars

\* The ledger written through save_transaction and read back by the read
\* calls of one worker; no wallet request is served. One user holds a wallet,
\* the other none.
InitRead ==
    /\ Stores
    /\ DOMAIN walletFile = {CHOOSE u \in Users : TRUE}
    /\ gateway = [exists |-> TRUE,
                  pc |-> [p \in Procs |-> IF p = MainProc THEN "ready" ELSE "none"]]
    /\ budget = [p \in Procs |-> 0]

NextRead == \E p \in Procs : SaveTransaction(p) \/ ReadStep(p)

SpecRead == InitRead /\ [][NextRead]_vars

\* The ledger written through save_transaction and one invoice request, served
\* at any point of it.
InitInvoice ==
    /\ Stores
    /\ DOMAIN walletFile = {CHOOSE u \in Users : TRUE}
    /\ gateway = [exists |-> TRUE,
                  pc |-> [p \in Procs |-> IF p = MainProc THEN "ready" ELSE "none"]]
    /\ budget = [p \in Procs |-> IF p = MainProc THEN 1 ELSE 0]

NextInvoice == \E p \in Procs : SaveTransaction(p) \/ GetInvoice(p)

SpecInvoice == InitInvoice /\ [][NextInvoice]_vars

\* First use: transactions.txt does not exist yet and both workers build their
\* PaymentGateway (as every place_order request does) and append records.
FreshGateway == [exists |-> FALSE, pc |-> [p \in Procs |-> "none"]]

InitStartup == Stores /\ gateway = FreshGateway /\ budget = [p \in Procs |-> 0]

NextStartup ==
    \E p \in Procs : NewGateway(p) \/ EnsureFileExists(p) \/ SaveTransaction(p)

SpecStartup == InitStartup /\ [][NextStartup]_vars

\* ------------------------------------------------------------------ claims
\* Worker p has finished a request op and serves no other yet.
Finished(p, op) == proc[p].pc = "idle" /\ proc[p].op = op

\* The balance of the request's user when the request arrived.
PreBalance(p) == BalanceIn(proc[p].pre_wallets, proc[p].user_id)

AllIdle == \A p \in Procs : proc[p].pc = "idle"

\* C1: when requests do not overlap and every call so far succeeded or was
\* refused without effect (no storage failure), each user's balance as read by
\* get_balance is the opening balance (zero for a wallet that was absent or
\* empty) plus the credited amounts minus the debited amounts of the
\* successful add_money / deduct_money / credit_seller calls on that user.
C1_BalanceIsSumOfDeltas ==
    (clean /\ AllIdle) =>
        \A u \in Users : GetBalance(u) = opening[u] + net[u]

\* A user who started without a wallet has been recharged and then debited.
C1_Witness ==
    /\ clean /\ AllIdle
    /\ \E u \in Users :
        /\ opening[u] = 0
        /\ \E i, j \in 1..Len(ledger) :
            /\ i < j
            /\ ledger[i].user_id = u /\ ledger[i].type = None
            /\ ledger[j].user_id = u /\ ledger[j].type = Some("debit")

\* C2: under every interleaving of two overlapping add_money, deduct_money,
\* credit_seller and create_wallet requests, every balance stored in the wallet
\* snapshot is >= 0.
C2_BalancesNeverNegative ==
    \A u \in DOMAIN walletFile : walletFile[u].balance >= 0

\* Two overlapping debits of one user both succeeded from the same snapshot.
C2_Witness ==
    /\ \A p \in Procs : Finished(p, "deduct_money") /\ proc[p].ret.kind = "success"
    /\ \E u \in Users :
        /\ \A p \in Procs : proc[p].user_id = u
        /\ \A p \in Procs : proc[p].ret.new_balance = Some(GetBalance(u))

\* C3: a deduct_money call with amount > 0 on a user whose balance b is at
\* least the amount (equal included) succeeds unless storage fails; get_balance
\* then returns b - amount and the returned record carries new_balance =
\* b - amount.
C3_DeductWithinBalance ==
    \A p \in Procs :
        ( /\ Finished(p, "deduct_money")
          /\ proc[p].amount > 0
          /\ PreBalance(p) >= proc[p].amount
          /\ proc[p].ret.kind # "io_error" )
        => /\ proc[p].ret.kind = "success"
           /\ GetBalance(proc[p].user_id) = PreBalance(p) - proc[p].amount
           /\ proc[p].ret.new_balance = Some(PreBalance(p) - proc[p].amount)

\* deduct_money(u, b) on a balance b > 0 succeeded and left 0.
C3_Witness ==
    \E p \in Procs :
        /\ Finished(p, "deduct_money")
        /\ proc[p].amount > 0
        /\ PreBalance(p) = proc[p].amount
        /\ proc[p].ret.kind = "success"
        /\ GetBalance(proc[p].user_id) = 0

\* C4: a deduct_money call with amount > 0 on a user (with or without a
\* wallet) whose balance b is below the amount raises
\* InsufficientBalanceException with required = amount and available = b,
\* unless the read itself fails, and leaves the wallet snapshot and the ledger
\* as they were.
C4_DeductBeyondBalance ==
    \A p \in Procs :
        ( /\ Finished(p, "deduct_money")
          /\ proc[p].amount > 0
          /\ PreBalance(p) < proc[p].amount )
        => /\ proc[p].ret.kind \in {"insufficient_balance", "io_error"}
           /\ proc[p].ret.kind = "insufficient_balance" =>
                 /\ proc[p].ret.required = Some(proc[p].amount)
                 /\ proc[p].ret.available = Some(PreBalance(p))
           /\ walletFile = proc[p].pre_wallets
           /\ ledger = proc[p].pre_ledger

\* A debit was refused on an existing wallet that holds too little, after the
\* ledger had already received a record.
C4_Witness ==
    \E p \in Procs :
        /\ Finished(p, "deduct_money")
        /\ proc[p].user_id \in DOMAIN proc[p].pre_wallets
        /\ proc[p].ret.kind = "insufficient_balance"
        /\ ledger # <<>>

WalletMutators == {"add_money", "deduct_money", "credit_seller"}

\* C5: add_money, deduct_money and credit_seller called with amount <= 0 raise
\* the invalid-amount error before any file is opened (the call never reaches a
\* file access), so the wallet snapshot and the ledger stay as they were.
C5_NonPositiveAmountRejected ==
    \A p \in Procs :
        (proc[p].fn \in WalletMutators /\ proc[p].amount <= 0)
        => /\ proc[p].pc = "idle"
           /\ proc[p].ret = InvalidAmount
           /\ walletFile = proc[p].pre_wallets
           /\ ledger = proc[p].pre_ledger

\* credit_seller was called with amount 0 on a non-empty ledger and refused.
C5_Witness ==
    \E p \in Procs :
        /\ Finished(p, "credit_seller")
        /\ proc[p].amount = 0
        /\ proc[p].ret = InvalidAmount
        /\ ledger # <<>>

\* C6: an add_money or credit_seller call with amount > 0 on a user with
\* balance b (0 when the wallet is absent) succeeds unless storage fails; the
\* wallet then exists, get_balance returns b + amount and the returned record
\* has status success and new_balance = b + amount.
C6_CreditAddsAmount ==
    \A p \in Procs :
        ( /\ proc[p].pc = "idle"
          /\ proc[p].op \in {"add_money", "credit_seller"}
          /\ proc[p].amount > 0
          /\ proc[p].ret.kind # "io_error" )
        => /\ proc[p].ret.kind = "success"
           /\ proc[p].user_id \in DOMAIN walletFile
           /\ GetBalance(proc[p].user_id) = PreBalance(p) + proc[p].amount
           /\ proc[p].ret.new_balance = Some(PreBalance(p) + proc[p].amount)

\* add_money on a user without a wallet succeeded: new_balance is the amount.
C6_Witness ==
    \E p \in Procs :
        /\ Finished(p, "add_money")
        /\ proc[p].user_id \notin DOMAIN proc[p].pre_wallets
        /\ proc[p].ret.kind = "success"
        /\ proc[p].ret.new_balance = Some(proc[p].amount)
        /\ GetBalance(proc[p].user_id) = proc[p].amount

C8_FailedDebitCancelsOrder ==
    \A p \in Procs :
        /\ (proc[p].op = "place_order"
                /\ proc[p].debit_ret.kind \notin {"none", "success"})
           => /\ proc[p].pc = "idle"
              /\ proc[p].outcome = "cancelled"
              /\ orders[proc[p].order].status = "cancelled"
              /\ ~proc[p].credit_called
        /\ proc[p].credit_called => proc[p].debit_ret.kind = "success"

\* The balance changed between the pre-check and the debit: the debit raised
\* InsufficientBalanceException and the order was cancelled.
C8_Witness ==
    \E p \in Procs :
        /\ Finished(p, "place_order")
        /\ proc[p].debit_ret.kind = "insufficient_balance"
        /\ orders[proc[p].order].status = "cancelled"

\* C9: in place_order, when the debit succeeded and credit_seller then failed,
\* the buyer's balance is the price lower (no refund), the order is not
\* cancelled and the request ends as a placed order, and the ledger holds the
\* buyer's debit record but no credit record with that transaction id.
C9_CreditFailureKeepsDebit ==
    \A p \in Procs :
        ( /\ Finished(p, "place_order")
          /\ proc[p].credit_called
          /\ proc[p].ret.kind # "success" )
        => /\ GetBalance(proc[p].buyer)
                 = BalanceIn(proc[p].pre_wallets, proc[p].buyer)
                   - orders[proc[p].order].total_price
           /\ proc[p].outcome = "placed"
           /\ orders[proc[p].order].status # "cancelled"
           /\ \E i \in 1..Len(ledger) :
                 /\ Some(ledger[i].id) = proc[p].buyer_txn_id
                 /\ ledger[i].type = Some("debit")
                 /\ ledger[i].user_id = proc[p].buyer
           /\ ~ \E i \in 1..Len(ledger) :
                 /\ Some(ledger[i].id) = proc[p].buyer_txn_id
                 /\ ledger[i].type = Some("credit")

\* C10: after every completed deduct_money or credit_seller call, whatever
\* single write failed, the ledger has received the call's record if and only
\* if the wallet snapshot has received its balance change.
C10_RecordIffBalanceChange ==
    \A p \in Procs :
        (proc[p].pc = "idle" /\ proc[p].op \in {"deduct_money", "credit_seller"})
        => ((ledger # proc[p].pre_ledger) <=> (walletFile # proc[p].pre_wallets))

\* The change a successful call of worker p's wallet method makes to a balance.
Delta(p) ==
    IF proc[p].op = "deduct_money" THEN 0 - proc[p].amount ELSE proc[p].amount

\* Both workers have finished a successful wallet mutation on user u.
BothMutated(u) ==
    \A p \in Procs :
        /\ proc[p].pc = "idle"
        /\ proc[p].op \in WalletMutators
        /\ proc[p].user_id = u
        /\ proc[p].ret.kind = "success"

\* C11: when two wallet mutations on the same user overlap, each reading the
\* whole snapshot and then rewriting it without a lock, and both report
\* success, the stored balance is either the balance with both deltas applied
\* or the balance with only one call's delta (the other delta is lost); the
\* lost-update outcome is reachable (C11_Witness).
C11_LostUpdate ==
    \A u \in Users :
        BothMutated(u) =>
            /\ GetBalance(u) \in
                  {opening[u] + net[u]} \cup {opening[u] + Delta(p) : p \in Procs}
            /\ \A p \in Procs :
                  proc[p].ret.new_balance \in
                     {Some(opening[u] + net[u]), Some(opening[u] + Delta(p))}

\* Both calls reported success, yet the stored balance shows one delta only.
C11_Witness ==
    \E u \in Users :
        /\ BothMutated(u)
        /\ GetBalance(u) # opening[u] + net[u]
        /\ \E p \in Procs :
              /\ GetBalance(u) = opening[u] + Delta(p)
              /\ proc[p].ret.new_balance = Some(GetBalance(u))

\* C12: when requests do not overlap, a place_order request whose buyer holds
\* less than the order price at the pre-check ends with no order created (its
\* `order` is never bound and the Order table holds at most one row per
\* earlier request) and with the wallet snapshot and the ledger as the request
\* found them; a request creates an order only when the buyer's balance is at
\* least the price.
C12_PreCheckBlocksOrder ==
    \A p \in Procs :
        proc[p].op = "place_order" =>
            LET current_balance == BalanceIn(proc[p].pre_wallets, proc[p].buyer)
            IN /\ (proc[p].pc = "idle" /\ current_balance < proc[p].order_price)
                  => /\ proc[p].outcome \in {"rejected", "error"}
                     /\ proc[p].order = 0
                     /\ Len(orders) <= MaxCalls - 1
                     /\ walletFile = proc[p].pre_wallets
                     /\ ledger = proc[p].pre_ledger
               /\ proc[p].order # 0
                  => current_balance >= proc[p].order_price

\* A buyer holding 10 asked for an order of 20 after an earlier order had been
\* placed: the request was turned away and nothing changed.
C12_Witness ==
    \E p \in Procs :
        /\ Finished(p, "place_order")
        /\ proc[p].outcome = "rejected"
        /\ BalanceIn(proc[p].pre_wallets, proc[p].buyer) = 10
        /\ proc[p].order_price = 20
        /\ proc[p].order = 0
        /\ Len(orders) = 1

\* C13: a create_wallet call, with any initial_balance, on a user who already
\* has a wallet leaves the wallet snapshot (and the ledger) unchanged and
\* returns the stored record, so the first initial balance stays in effect.
C13_CreateWalletIdempotent ==
    \A p \in Procs :
        ( /\ Finished(p, "create_wallet")
          /\ proc[p].user_id \in DOMAIN proc[p].pre_wallets )
        => /\ walletFile = proc[p].pre_wallets
           /\ ledger = proc[p].pre_ledger
           /\ proc[p].ret.kind = "success"
                => proc[p].ret.new_balance = Some(PreBalance(p))

\* create_wallet(u, 0) created the wallet; create_wallet(u, 20) then returned
\* it with balance 0.
C13_Witness ==
    \E p \in Procs :
        /\ Finished(p, "create_wallet")
        /\ proc[p].user_id \in DOMAIN proc[p].pre_wallets
        /\ opening[proc[p].user_id] = 0 /\ net[proc[p].user_id] = 0
        /\ proc[p].amount = 20
        /\ proc[p].ret.new_balance = Some(0)
        /\ GetBalance(proc[p].user_id) = 0

\* C14: a get_balance or get_wallet call changes neither the wallet snapshot
\* nor the ledger and creates no wallet record; unless the read fails, for a
\* user without a wallet get_balance returns 0 and get_wallet a record with
\* balance 0, and for a user with a wallet both give the stored balance.
C14_BalanceReadsAreReadOnly ==
    [][ (query' # query /\ query'.fn \in {"get_balance", "get_wallet"})
        => /\ walletFile' = walletFile
           /\ ledger' = ledger
           /\ query'.kind # "io_error" =>
                LET u == query'.user_id[1]
                IN /\ u \notin DOMAIN walletFile => query'.balance = Some(0)
                   /\ u \in DOMAIN walletFile =>
                         query'.balance = Some(walletFile[u].balance) ]_vars

\* get_wallet answered with a zero balance for a user who has no wallet, and
\* the user still has none.
C14_Witness ==
    /\ query.fn = "get_wallet"
    /\ query.kind = "wallet"
    /\ query.user_id[1] \notin DOMAIN walletFile
    /\ query.balance = Some(0)
    /\ ledger # <<>>

\* C15: the ledger only grows: in every step, also while workers construct
\* PaymentGateway instances next to appends, the ledger after the step is the
\* ledger before it, possibly followed by new records.
C15_LedgerAppendOnly ==
    [][ /\ Len(ledger') >= Len(ledger)
        /\ SubSeq(ledger', 1, Len(ledger)) = ledger ]_vars

\* The indexes of the lines read by the last lookup that parse and carry the
\* id (and the user, when one was given) the lookup asked for.
Hits ==
    {i \in DOMAIN query.lines :
        /\ Loads(query.lines[i]) # None
        /\ query.lines[i].id = query.txn_id[1]
        /\ query.user_id # None => query.lines[i].user_id = query.user_id[1]}

FirstHit == CHOOSE i \in Hits : \A j \in Hits : i <= j

Looked == query.fn = "get_transaction" /\ query.kind # "io_error"

\* C16: unless the read fails, get_transaction(id, user_id) returns the first
\* ledger record in file order with that id (and that user_id, when given),
\* and raises TransactionNotFoundException exactly when the ledger holds no
\* such record.
C16_GetTransactionFindsFirst ==
    Looked =>
        /\ Hits # {} => /\ query.kind = "found"
                        /\ query.txn = Some(query.lines[FirstHit])
        /\ query.kind = "not_found" <=> Hits = {}

Count(transactions, r) ==
    Cardinality({i \in DOMAIN transactions : transactions[i] = r})

Lists == {"get_all_transactions", "get_user_transactions", "get_transaction_history"}

\* C18: whatever malformed lines the ledger holds and wherever they are,
\* unless the read fails get_all_transactions returns exactly the records
\* that parse, get_user_transactions(u) and get_transaction_history(u) exactly
\* those of user u (each as often as the file holds it), newest timestamp
\* first, and no call ends in another error.
C18_ListsSkipMalformedLines ==
    (query.fn \in Lists) =>
        /\ query.kind \in {"list", "io_error"}
        /\ query.kind = "list" =>
             /\ \A i, j \in DOMAIN query.list :
                   i < j => query.list[i].timestamp >= query.list[j].timestamp
             /\ \A r \in SavedRecords :
                   Count(query.list, r) =
                      IF query.fn = "get_all_transactions"
                         \/ r.user_id = query.user_id[1]
                      THEN Count(query.lines, r) ELSE 0
             /\ \A i \in DOMAIN query.list : query.list[i] \in SavedRecords

\* A list of one user's records was returned newest first from a ledger that
\* holds them oldest first, around a malformed line.
C18_Witness ==
    /\ query.fn = "get_transaction_history"
    /\ query.kind = "list"
    /\ Len(query.lines) = 3
    /\ query.lines[2] = Malformed
    /\ Len(query.list) = 2
    /\ query.list[1] = query.lines[3]
    /\ query.list[2] = query.lines[1]
    /\ query.list[1].timestamp > query.list[2].timestamp

\* C19: on a ledger that holds malformed lines, unless the read fails
\* get_transaction(id) returns a matching record when one exists anywhere in
\* the ledger, also after a malformed line, raises
\* TransactionNotFoundException when none exists, and never returns None.
C19_LookupSkipsMalformedLines ==
    (Looked /\ \E i \in DOMAIN query.lines : query.lines[i] = Malformed) =>
        /\ query.kind \in {"found", "not_found"}
        /\ Hits # {} => /\ query.kind = "found"
                        /\ \E i \in Hits : query.txn = Some(query.lines[i])
        /\ Hits = {} => query.kind = "not_found"

\* C20: two ledger records carry the same id only when they are the debit and
\* the credit of one settlement, a debit of the buyer followed by a credit of
\* the seller.
C20_TransactionIdsUnique ==
    \A i, j \in DOMAIN ledger :
        (i < j /\ ledger[i].id = ledger[j].id) =>
            /\ ledger[i].type = Some("debit")
            /\ ledger[j].type = Some("credit")
            /\ ledger[i].user_id # ledger[j].user_id

\* C21: within one place_order settlement credit_seller is started only after
\* deduct_money has returned successfully and appended its record, so every
\* credit record that carries the settlement's transaction id stands in the
\* ledger after a success debit record with the same id.
C21_SettlementStepsInOrder ==
    \A p \in Procs :
        (proc[p].op = "place_order" /\ proc[p].buyer_txn_id # None) =>
            /\ proc[p].debit_ret.kind = "success"
            /\ \A j \in DOMAIN ledger :
                  ( /\ Some(ledger[j].id) = proc[p].buyer_txn_id
                    /\ ledger[j].type = Some("credit") )
                  => \E i \in 1..(j - 1) :
                        /\ ledger[i].id = ledger[j].id
                        /\ ledger[i].type = Some("debit")
                        /\ ledger[i].status = "success"

C24_CancelledOrderNotCharged ==
    \A p \in Procs :
        ( /\ Finished(p, "place_order")
          /\ proc[p].order # 0
          /\ orders[proc[p].order].status = "cancelled" )
        => GetBalance(proc[p].buyer) = BalanceIn(proc[p].pre_wallets, proc[p].buyer)

\* The wallet records present in the snapshot p read are present after p's
\* rewrite, and the balance of every user but p's own is what the file held
\* just before the rewrite.
KeptByWrite(p) ==
    /\ DOMAIN walletFile \subseteq DOMAIN walletFile'
    /\ \A u \in DOMAIN walletFile :
          u # proc[p].user_id => walletFile'[u] = walletFile[u]

\* C25: under every interleaving of two overlapping create_wallet, add_money,
\* deduct_money and credit_seller calls, a wallet record that exists in the
\* snapshot exists in every later state, and a call on one user never changes
\* the stored balance of another user.
C25_WalletsPersistAndIsolated ==
    [][ \A p \in Procs : (proc'[p] # proc[p]) => KeptByWrite(p) ]_vars

\* The amounts of the success records of user u with the given type.
RECURSIVE SumOf(_, _, _)
SumOf(lines, u, type) ==
    IF lines = <<>> THEN 0
    ELSE SumOf(Tail(lines), u, type)
         + (IF /\ Head(lines).user_id = u
               /\ Head(lines).type = type
               /\ Head(lines).status = "success"
            THEN Head(lines).amount ELSE 0)

\* C26: under every interleaving of overlapping requests, the amounts of a
\* user's success debit records never add up to more than what the user was
\* ever credited. For a user whom no request credits or recharges that total
\* is the initial balance: two overlapping debits never both succeed against
\* funds sufficient for only one.
C26_NoOverspending ==
    \A u \in Users :
        ( \A p \in Procs :
             /\ proc[p].op \in {"none", "deduct_money", "place_order"}
             /\ proc[p].op = "place_order" => proc[p].seller # u )
        => SumOf(ledger, u, Some("debit")) <= opening[u]

\* The description with its tags taken out and nothing else.
RECURSIVE TagsRemoved(_)
TagsRemoved(description) ==
    IF description = <<>> THEN <<>>
    ELSE IF Head(description) \in Tags THEN TagsRemoved(Tail(description))
    ELSE <<Head(description)>> \o TagsRemoved(Tail(description))

\* C23: a get_invoice request, and the rendering it asks for, leave the
\* ledger and the wallet snapshot as they were, and the description shown is
\* the record's description with every tag, in either letter case, removed
\* (blanks at the two ends of the description aside).
C23_InvoiceRendering ==
    [][ ((query' # query \/ invoice' # invoice) /\ query'.fn = "get_invoice")
        => /\ ledger' = ledger
           /\ walletFile' = walletFile
           /\ query'.kind = "invoice" =>
                 invoice'.rendered = Strip(TagsRemoved(invoice'.description)) ]_vars

\* The indexes of the lines read by the last get_invoice request that parse,
\* carry the id asked for and belong to the requester.
Owned ==
    {i \in DOMAIN query.lines :
        /\ Loads(query.lines[i]) # None
        /\ query.lines[i].id = query.txn_id[1]
        /\ query.lines[i].user_id = query.user_id[1]}

\* C27: unless the read fails, a get_invoice request for the id of a ledger
\* record made by the record's user renders a record of that user with that
\* id; the seller of a settled order, whose credit record shares its id with
\* the buyer's debit record, gets the credit record.
C27_OwnerGetsInvoice ==
    (query.fn = "get_invoice" /\ query.kind # "io_error" /\ Owned # {}) =>
        /\ query.kind = "invoice"
        /\ \E i \in Owned : query.txn = Some(query.lines[i])

\* C28: get_invoice renders a record only to its owner: an invoice is returned
\* only if the rendered record's user_id is the requester's id; every other
\* request is answered Unauthorized or not found (or fails on a storage error).
C28_InvoiceOnlyForOwner ==
    query.fn = "get_invoice" =>
        /\ query.kind = "invoice" =>
              /\ query.txn # None
              /\ query.txn[1].user_id = query.user_id[1]
              /\ query.txn[1].id = query.txn_id[1]
        /\ query.kind # "invoice" =>
              query.kind \in {"unauthorized", "not_found", "io_error"}

\* The lines the ledger gained since the request of worker p arrived.
Added(p) == SubSeq(ledger, Len(proc[p].pre_ledger) + 1, Len(ledger))

IsDebitOf(p, line) ==
    /\ line.type = Some("debit")
    /\ line.user_id = proc[p].buyer
    /\ line.amount = proc[p].order_price

IsCreditOf(p, line) ==
    /\ line.type = Some("credit")
    /\ line.user_id = proc[p].seller
    /\ line.amount = SellerAmount(proc[p].order_price)

\* The request of worker p ended before an order existed and changed nothing.
NothingDone(p) ==
    /\ proc[p].order = 0
    /\ proc[p].debit_ret = NoResult
    /\ ~proc[p].credit_called
    /\ ledger = proc[p].pre_ledger
    /\ walletFile = proc[p].pre_wallets

EndedInOneOutcome(p) ==
    \/ /\ proc[p].outcome \in {"error", "rejected", "no_order"}
       /\ NothingDone(p)
    \/ /\ proc[p].outcome = "cancelled"
       /\ proc[p].order # 0
       /\ orders[proc[p].order].status = "cancelled"
       /\ proc[p].debit_ret.kind \in {"insufficient_balance", "io_error"}
       /\ ~proc[p].credit_called
       /\ Added(p) = <<>>
    \/ /\ proc[p].outcome = "placed"
       /\ proc[p].order # 0
       /\ orders[proc[p].order].status = "pending"
       /\ proc[p].debit_ret.kind = "success"
       /\ proc[p].credit_called
       /\ IF proc[p].seller_credit_success
          THEN /\ proc[p].ret.kind = "success"
               /\ Len(Added(p)) = 2
               /\ IsDebitOf(p, Added(p)[1])
               /\ IsCreditOf(p, Added(p)[2])
          ELSE /\ proc[p].ret.kind = "io_error"
               /\ Len(Added(p)) = 1
               /\ IsDebitOf(p, Added(p)[1])

RECURSIVE Total(_, _)
Total(f, S) ==
    IF S = {} THEN 0
    ELSE LET u == CHOOSE v \in S : TRUE IN f[u] + Total(f, S \ {u})

\* The prices of the orders that were not cancelled.
RECURSIVE SettledPrices(_)
SettledPrices(list) ==
    IF list = <<>> THEN 0
    ELSE SettledPrices(Tail(list))
         + (IF Head(list).status # "cancelled" THEN Head(list).total_price ELSE 0)

\* The amounts of the recharges recorded as successful.
Recharged == Total([u \in Users |-> SumOf(ledger, u, None)], Users)

\* C30: after any sequence of recharges and orders that do not overlap and
\* meet no storage failure, the wallet balances add up to the initial balances
\* plus the recharged amounts minus the platform fee, 10 percent of the price,
\* of every settled order (amounts in exact arithmetic).
C30_FundsConserved ==
    (clean /\ AllIdle) =>
        100 * Total([u \in Users |-> GetBalance(u)], Users)
            = 100 * (Total(opening, Users) + Recharged)
              - PlatformFeePercent * SettledPrices(orders)

\* A recharge and a settled order are behind the balances.
C30_Witness ==
    /\ clean
    /\ AllIdle
    /\ Recharged > 0
    /\ SettledPrices(orders) > 0
    /\ \E u \in Users : GetBalance(u) = SellerAmount(orders[1].total_price)

====
